---- MODULE Spec2Model ----
(***************************************************************************)
(* A model of fbchat/_thread.py: the Thread object (a session and an id)   *)
(* and the operations of ThreadABC.  One action is one call of one public  *)
(* method on the thread; the session transport is the environment: every   *)
(* request handed to it is appended to `sent`, and what it answers is      *)
(* drawn from small sets and recorded in `replies`.                        *)
(*                                                                         *)
(* Python strings are TLA+ strings, dicts are functions from keys to      *)
(* values, lists and tuples are sequences.  Where one Python variable may  *)
(* hold values of several types (a constructor argument, a return value)   *)
(* the value is tagged with its type: Str, PyInt, PyBool, None, Tuple, List.*)
(***************************************************************************)
EXTENDS Integers, Sequences, FiniteSets, TLC

VARIABLES
    thread,   \* the Thread object: its class, session and id
    ctor,     \* the arguments the thread was constructed with
    op,       \* the most recent call: method name and arguments
    sent,     \* the requests that call handed to the session, in order
    replies,  \* what the session answered to each of them
    result    \* how the call ended: a returned value or a raised exception

vars == <<thread, ctor, op, sent, replies, result>>

(***************************************************************************)
(* Bounds of the model.                                                    *)
(***************************************************************************)
\* the longest list of files, mentions, poll options, snippets and nodes
MaxItems == 2
\* the most pages of shared media the service serves to one fetch_images
MaxPages == 2

(***************************************************************************)
(* Python values.                                                          *)
(***************************************************************************)
None == [t |-> "NoneType"]
Str(s) == [t |-> "str", s |-> s]
PyInt(n) == [t |-> "int", n |-> n]
PyBool(b) == [t |-> "bool", b |-> b]
Tuple(items) == [t |-> "tuple", items |-> items]
List(items) == [t |-> "list", items |-> items]

Return(v) == [kind |-> "return", value |-> v]
Raise(e) == [kind |-> "raise", exc |-> e]

\* all sequences over S of length at most n
SeqUpTo(S, n) == UNION {[1..k -> S] : k \in 0..n}

\* list.reverse()
Reverse(s) == [i \in 1..Len(s) |-> s[Len(s) + 1 - i]]

\* d[k] = v on a dict d
SetItem(d, k, v) == (k :> v) @@ d

\* d.get(k)
Get(d, k) == IF k \in DOMAIN d THEN d[k] ELSE None

\* d.update(e)
Update(d, e) == e @@ d

Digit(d) ==
    CASE d = 0 -> "0" [] d = 1 -> "1" [] d = 2 -> "2" [] d = 3 -> "3"
      [] d = 4 -> "4" [] d = 5 -> "5" [] d = 6 -> "6" [] d = 7 -> "7"
      [] d = 8 -> "8" [] d = 9 -> "9"

RECURSIVE NatToStr(_)
NatToStr(n) == IF n < 10 THEN Digit(n) ELSE NatToStr(n \div 10) \o Digit(n % 10)

\* str(n) of an int: its decimal digits, with a leading minus sign
IntToStr(n) == IF n < 0 THEN "-" \o NatToStr(0 - n) ELSE NatToStr(n)

\* str(v): the converter of Thread.id
PyStr(v) ==
    CASE v.t = "str" -> v.s
      [] v.t = "int" -> IntToStr(v.n)
      [] v.t = "NoneType" -> "None"

(***************************************************************************)
(* Module constants.                                                       *)
(***************************************************************************)
DEFAULT_COLOR == "#0084ff"

SETABLE_COLORS ==
    << DEFAULT_COLOR, "#44bec7", "#ffc300", "#fa3c4c", "#d696bb", "#6699cc",
       "#13cf13", "#ff7e29", "#e68585", "#7646ff", "#20cef5", "#67b868",
       "#d4a88c", "#ff5ca1", "#a695c7", "#ff7ca8", "#1adb5b", "#f01d6a",
       "#ff9c19", "#0edcde" >>

\* color in SETABLE_COLORS
InSetableColors(color) == \E i \in 1..Len(SETABLE_COLORS) : SETABLE_COLORS[i] = color

(***************************************************************************)
(* The Thread object.                                                      *)
(***************************************************************************)
\* The classes a thread object may have: the raw Thread of this file, and
\* User for the concrete thread classes (User, Group, Page) of the package.
Classes == {"Thread", "User"}
Sessions == {"session1", "session2"}
\* what a caller may pass as id: the annotation says str, the converter takes anything
IdValues == {Str(""), Str("1234"), PyInt(42), None}

\* ThreadInit with the id defaulted before it is converted: str(id or "")
ThreadInit_falsy(cls, session, id) ==
    [cls |-> cls, session |-> session, id |-> IF (id # None /\ id # Str("") /\ id # PyInt(0)) THEN PyStr(id) ELSE ""]

\* cls(session=session, id=id): session is stored as given, id through converter=str
ThreadInit(cls, session, id) == [cls |-> cls, session |-> session, id |-> PyStr(id)]

\* Thread._to_send_data answering with a dict of its own instead of raising
Thread_to_send_data_dict(self) == Return([thread_fbid |-> self.id])

\* Thread._to_send_data: not supported on raw Thread objects
Thread_to_send_data(self) == Raise("NotImplementedError")

\* the _to_send_data of a concrete thread class: a fresh dict naming the thread
User_to_send_data(self) == Return([other_user_fbid |-> self.id])

\* self._to_send_data(), dispatched on the class of self
_to_send_data(self) ==
    IF self.cls = "Thread" THEN Thread_to_send_data(self) ELSE User_to_send_data(self)

(***************************************************************************)
(* The session transport.                                                  *)
(***************************************************************************)
\* what a call leaves behind: the thread, the requests, the replies, the outcome
Out(self, reqs, reps, res) ==
    [self |-> self, sent |-> reqs, replies |-> reps, result |-> res]

\* the session raising instead of answering
SessionFailure == [ok |-> FALSE, exc |-> "HTTPError"]
Answer(j) == [ok |-> TRUE, j |-> j]

\* self.session._do_send_request(data)
SendRequest(self, data) ==
    [session |-> self.session, via |-> "_do_send_request", data |-> data]

\* self.session._payload_post(url, data)
PostRequest(self, url, data) ==
    [session |-> self.session, via |-> "_payload_post", url |-> url, data |-> data]

\* self.session._graphql_requests(query)
GraphqlRequest(self, query) ==
    [session |-> self.session, via |-> "_graphql_requests", query |-> query]

MessageIds == {"mid.1", "mid.2"}
\* _do_send_request answers with the pair (message_id, thread_id)
SendReplies ==
    {SessionFailure} \cup {Answer(<<m, "1234">>) : m \in MessageIds}
\* an answer whose content the caller throws away
PlainReplies == {SessionFailure, Answer([payload |-> "ok"])}

\* PostAndForget posting a second time when the session fails
PostAndForget_retry(self, url, data, reply) ==
    IF reply.ok
    THEN Out(self, <<PostRequest(self, url, data)>>, <<reply>>, Return(None))
    ELSE Out(self, <<PostRequest(self, url, data), PostRequest(self, url, data)>>,
             <<reply, reply>>, Raise(reply.exc))

\* j = self.session._payload_post(url, data), j unused
PostAndForget(self, url, data, reply) ==
    Out(self, <<PostRequest(self, url, data)>>, <<reply>>,
        IF reply.ok THEN Return(None) ELSE Raise(reply.exc))

(***************************************************************************)
(* Sending.                                                                *)
(***************************************************************************)
wave(self, first, reply) ==
    LET d == _to_send_data(self) IN
    IF d.kind = "raise" THEN Out(self, <<>>, <<>>, d)
    ELSE LET data0 == SetItem(d.value, "action_type", "ma-type:user-generated-message")
             data1 == SetItem(data0, "lightweight_action_attachment[lwa_state]",
                              IF first THEN "INITIATED" ELSE "RECIPROCATED")
             data == SetItem(data1, "lightweight_action_attachment[lwa_type]", "WAVE")
         IN  Out(self, <<SendRequest(self, data)>>, <<reply>>,
                 IF reply.ok THEN Return(Str(reply.j[1])) ELSE Raise(reply.exc))

\* bool(v) of a Python value
Truthy(v) ==
    CASE v.t = "NoneType" -> FALSE
      [] v.t = "str" -> v.s # ""
      [] v.t = "int" -> v.n # 0
      [] v.t = "bool" -> v.b
      [] v.t \in {"tuple", "list"} -> v.items # <<>>
      [] v.t \in {"datetime", "timedelta"} -> TRUE

\* _util.mimetype_to_key(mimetype)
mimetype_to_key(mimetype) ==
    CASE mimetype = "" -> "file_id"
      [] mimetype = "image/gif" -> "gif_id"
      [] mimetype = "image/png" -> "image_id"
      [] mimetype = "video/mp4" -> "video_id"
      [] mimetype = "audio/mpeg" -> "audio_id"
      [] OTHER -> "file_id"

\* mention._to_send_data(i)
Mention_to_send_data(mention, i) ==
    (("profile_xmd[" \o IntToStr(i) \o "][id]") :> mention.thread_id)
    @@ (("profile_xmd[" \o IntToStr(i) \o "][offset]") :> mention.offset)
    @@ (("profile_xmd[" \o IntToStr(i) \o "][length]") :> mention.length)
    @@ (("profile_xmd[" \o IntToStr(i) \o "][type]") :> "p")

\* for i, mention in enumerate(mentions): data.update(mention._to_send_data(i)),
\* from the k-th mention on
RECURSIVE UpdateMentions(_, _, _)
UpdateMentions(data, mentions, k) ==
    IF k > Len(mentions) THEN data
    ELSE UpdateMentions(Update(data, Mention_to_send_data(mentions[k], k - 1)),
                        mentions, k + 1)

\* for i, (file_id, mimetype) in enumerate(files): data["<key>s[i]"] = file_id,
\* from the k-th file on
RECURSIVE SetFiles(_, _, _)
SetFiles(data, files, k) ==
    IF k > Len(files) THEN data
    ELSE SetFiles(SetItem(data,
                          mimetype_to_key(files[k][2]) \o "s[" \o IntToStr(k - 1) \o "]",
                          files[k][1]),
                  files, k + 1)

\* text, reply_to_id: None or Str; mentions, files: None or List
send_text(self, text, mentions, files, reply_to_id, reply) ==
    LET d == _to_send_data(self) IN
    IF d.kind = "raise" THEN Out(self, <<>>, <<>>, d)
    ELSE LET data0 == SetItem(d.value, "action_type", "ma-type:user-generated-message")
             data1 == IF text # None THEN SetItem(data0, "body", text.s) ELSE data0
             data2 == UpdateMentions(data1,
                                     IF Truthy(mentions) THEN mentions.items ELSE <<>>, 1)
             data3 == IF Truthy(files) THEN SetItem(data2, "has_attachment", TRUE)
                      ELSE data2
             data4 == SetFiles(data3, IF Truthy(files) THEN files.items ELSE <<>>, 1)
             data == IF Truthy(reply_to_id)
                     THEN SetItem(data4, "replied_to_message_id", reply_to_id.s)
                     ELSE data4
         IN  Out(self, <<SendRequest(self, data)>>, <<reply>>,
                 IF reply.ok THEN Return(Tuple(<<Str(reply.j[1]), Str(reply.j[2])>>))
                 ELSE Raise(reply.exc))

\* size.name.lower() of an EmojiSize
Lower(name) ==
    CASE name = "LARGE" -> "large" [] name = "MEDIUM" -> "medium" [] name = "SMALL" -> "small"

send_emoji(self, emoji, size, reply) ==
    LET d == _to_send_data(self) IN
    IF d.kind = "raise" THEN Out(self, <<>>, <<>>, d)
    ELSE LET data0 == SetItem(d.value, "action_type", "ma-type:user-generated-message")
             data1 == SetItem(data0, "body", emoji)
             data == SetItem(data1, "tags[0]", "hot_emoji_size:" \o Lower(size.name))
         IN  Out(self, <<SendRequest(self, data)>>, <<reply>>,
                 IF reply.ok THEN Return(Tuple(<<Str(reply.j[1]), Str(reply.j[2])>>))
                 ELSE Raise(reply.exc))

send_sticker(self, sticker_id, reply) ==
    LET d == _to_send_data(self) IN
    IF d.kind = "raise" THEN Out(self, <<>>, <<>>, d)
    ELSE LET data0 == SetItem(d.value, "action_type", "ma-type:user-generated-message")
             data == SetItem(data0, "sticker_id", sticker_id)
         IN  Out(self, <<SendRequest(self, data)>>, <<reply>>,
                 IF reply.ok THEN Return(Tuple(<<Str(reply.j[1]), Str(reply.j[2])>>))
                 ELSE Raise(reply.exc))

_send_location(self, current, latitude, longitude, reply) ==
    LET d == _to_send_data(self) IN
    IF d.kind = "raise" THEN Out(self, <<>>, <<>>, d)
    ELSE LET data0 == SetItem(d.value, "action_type", "ma-type:user-generated-message")
             data1 == SetItem(data0, "location_attachment[coordinates][latitude]", latitude)
             data2 == SetItem(data1, "location_attachment[coordinates][longitude]", longitude)
             data == SetItem(data2, "location_attachment[is_current_location]", current)
         IN  Out(self, <<SendRequest(self, data)>>, <<reply>>,
                 IF reply.ok THEN Return(Tuple(<<Str(reply.j[1]), Str(reply.j[2])>>))
                 ELSE Raise(reply.exc))

\* a function with no return statement returns None
Discard(out) ==
    [out EXCEPT !.result = IF out.result.kind = "return" THEN Return(None) ELSE out.result]

send_location(self, latitude, longitude, reply) ==
    Discard(_send_location(self, TRUE, latitude, longitude, reply))

send_pinned_location(self, latitude, longitude, reply) ==
    Discard(_send_location(self, FALSE, latitude, longitude, reply))

send_files(self, files, reply) == send_text(self, None, None, files, None, reply)

(***************************************************************************)
(* Fetching.  search_messages and fetch_images are generators: the model   *)
(* runs them to exhaustion, and the list returned is what they yielded.    *)
(***************************************************************************)
search_messages(self, query, offset, limit, reply) ==
    LET data == [query |-> query, snippetOffset |-> offset, snippetLimit |-> limit,
                 identifier |-> "thread_fbid", thread_fbid |-> self.id]
        req == PostRequest(self, "/ajax/mercury/search_snippets.php?dpr=1", data)
    IN  IF ~reply.ok THEN Out(self, <<req>>, <<reply>>, Raise(reply.exc))
        ELSE LET res == reply.j.search_snippets[query]
                 snippets == IF self.id \in DOMAIN res THEN res[self.id].snippets ELSE <<>>
             IN  Out(self, <<req>>, <<reply>>,
                     Return(List([i \in 1..Len(snippets) |-> Str(snippets[i].message_id)])))

\* AttachedThread without the id
AttachedThread_no_id(self) == ThreadInit(self.cls, self.session, None)

\* thread = self.__class__(session=self.session, id=self.id)
AttachedThread(self) == ThreadInit(self.cls, self.session, Str(self.id))

\* before: None or a datetime
fetch_messages(self, limit, before, reply) ==
    LET params == [id |-> self.id, message_limit |-> limit, load_messages |-> TRUE,
                   load_read_receipts |-> TRUE,
                   before |-> IF Truthy(before)
                              THEN [fn |-> "_util.datetime_to_millis", arg |-> before]
                              ELSE None]
        req == GraphqlRequest(self, [fn |-> "_graphql.from_doc_id",
                                     id |-> "1860982147341344", params |-> params])
    IN  IF ~reply.ok THEN Out(self, <<req>>, <<reply>>, Raise(reply.exc))
        ELSE IF Get(reply.j, "message_thread") = None
        THEN Out(self, <<req>>, <<reply>>, Raise("FBchatException"))
        ELSE LET read_receipts == reply.j.message_thread.read_receipts.nodes
                 new == AttachedThread(self)
                 nodes == reply.j.message_thread.messages.nodes
                 messages == [i \in 1..Len(nodes) |->
                                 [fn |-> "MessageData._from_graphql", thread |-> new,
                                  message |-> nodes[i], read_receipts |-> read_receipts]]
             IN  Out(self, <<req>>, <<reply>>, Return(List(Reverse(messages))))

\* what fetch_images yields for the edge i
MediaItem(i) ==
    IF Get(i.node, "__typename") = Str("MessageImage")
    THEN [fn |-> "ImageAttachment._from_list", arg |-> i]
    ELSE IF Get(i.node, "__typename") = Str("MessageVideo")
    THEN [fn |-> "VideoAttachment._from_list", arg |-> i]
    ELSE [fn |-> "Attachment", id |-> Get(i.node, "legacy_attachment_id")]

\* The loop of fetch_images after the k-th request was answered with pages[k]:
\* every edge of the page is yielded, then the next page is requested with the
\* page's end_cursor if the page says there is one.
RECURSIVE FetchImagesLoop(_, _, _, _, _, _)
FetchImagesLoop(self, data, pages, k, reqs, yielded) ==
    IF ~pages[k].ok THEN Out(self, reqs, SubSeq(pages, 1, k), Raise(pages[k].exc))
    ELSE LET media == pages[k].j[self.id].message_shared_media
             items == yielded \o [i \in 1..Len(media.edges) |-> MediaItem(media.edges[i])]
         IN  IF Truthy(Get(media.page_info, "has_next_page"))
             THEN LET data2 == SetItem(data, "after", Get(media.page_info, "end_cursor"))
                      req == GraphqlRequest(self, [fn |-> "_graphql.from_query_id",
                                                   id |-> "515216185516880",
                                                   params |-> data2])
                  IN  FetchImagesLoop(self, data2, pages, k + 1, Append(reqs, req), items)
             ELSE Out(self, reqs, SubSeq(pages, 1, k), Return(List(items)))

\* pages: what the session answers to the first, second, ... request
fetch_images(self, pages) ==
    LET data == [id |-> self.id, first |-> 48]
        req == GraphqlRequest(self, [fn |-> "_graphql.from_query_id",
                                     id |-> "515216185516880", params |-> data])
    IN  FetchImagesLoop(self, data, pages, 1, <<req>>, <<>>)

_forced_fetch(self, message_id, reply) ==
    LET params == [thread_and_message_id |->
                      [thread_id |-> self.id, message_id |-> message_id]]
        req == GraphqlRequest(self, [fn |-> "_graphql.from_doc_id",
                                     id |-> "1768656253222505", params |-> params])
    IN  Out(self, <<req>>, <<reply>>,
            IF reply.ok THEN Return(reply.j) ELSE Raise(reply.exc))

(***************************************************************************)
(* Thread settings.                                                        *)
(***************************************************************************)
set_nickname(self, user_id, nickname, reply) ==
    PostAndForget(self, "/messaging/save_thread_nickname/?source=thread_settings&dpr=1",
                  [nickname |-> nickname, participant_id |-> user_id,
                   thread_or_other_fbid |-> self.id],
                  reply)

\* set_color without the check of the color
set_color_unchecked(self, color, reply) ==
    LET color2 == IF color = DEFAULT_COLOR THEN "" ELSE color
    IN  PostAndForget(self, "/messaging/save_thread_color/?source=thread_settings&dpr=1",
                      [color_choice |-> color2, thread_or_other_fbid |-> self.id], reply)

set_color(self, color, reply) ==
    IF ~InSetableColors(color) THEN Out(self, <<>>, <<>>, Raise("ValueError"))
    ELSE LET color2 == IF color = DEFAULT_COLOR THEN "" ELSE color
         IN  PostAndForget(self,
                           "/messaging/save_thread_color/?source=thread_settings&dpr=1",
                           [color_choice |-> color2, thread_or_other_fbid |-> self.id],
                           reply)

set_emoji(self, emoji, reply) ==
    PostAndForget(self, "/messaging/save_thread_emoji/?source=thread_settings&dpr=1",
                  [emoji_choice |-> emoji, thread_or_other_fbid |-> self.id],
                  reply)

\* otid: what _util.generate_offline_threading_id() returns to this call
forward_attachment(self, attachment_id, otid, reply) ==
    LET data == SetItem([attachment_id |-> attachment_id],
                        "recipient_map[" \o otid \o "]", self.id)
        req == PostRequest(self, "/mercury/attachments/forward/", data)
    IN  Out(self, <<req>>, <<reply>>,
            IF ~reply.ok THEN Raise(reply.exc)
            ELSE IF ~Truthy(Get(reply.j, "success")) THEN Raise("FBchatFacebookError")
            ELSE Return(None))

_set_typing(self, typing, reply) ==
    PostAndForget(self, "/ajax/messaging/typ.php",
                  [typ |-> IF typing THEN "1" ELSE "0", thread |-> self.id,
                   source |-> "mercury-chat"],
                  reply)

start_typing(self, reply) == _set_typing(self, TRUE, reply)

stop_typing(self, reply) == _set_typing(self, FALSE, reply)

\* the entries create_poll adds for the options, from the k-th option on;
\* data is an OrderedDict: a sequence of (key, value)
RECURSIVE PollOptions(_, _, _)
PollOptions(data, options, k) ==
    IF k > Len(options) THEN data
    ELSE PollOptions(data \o << <<"option_text_array[" \o IntToStr(k - 1) \o "]",
                                  options[k][1]>>,
                                <<"option_is_selected_array[" \o IntToStr(k - 1) \o "]",
                                  IF options[k][2] THEN "1" ELSE "0">> >>,
                     options, k + 1)

\* options: the items of the mapping, in its order
create_poll(self, question, options, reply) ==
    LET data == PollOptions(<< <<"question_text", question>>, <<"target_id", self.id>> >>,
                            options, 1)
        req == PostRequest(self, "/messaging/group_polling/create_poll/?dpr=1", data)
    IN  Out(self, <<req>>, <<reply>>,
            IF ~reply.ok THEN Raise(reply.exc)
            ELSE IF Get(reply.j, "status") # Str("success") THEN Raise("FBchatFacebookError")
            ELSE Return(None))

(***************************************************************************)
(* Muting.                                                                 *)
(***************************************************************************)
\* datetime.timedelta(days, seconds, microseconds), normalised as Python does
timedelta(days, seconds, microseconds) ==
    [t |-> "timedelta", days |-> days, seconds |-> seconds, microseconds |-> microseconds]

\* _util.timedelta_to_seconds(td): round(td.total_seconds()), halves to the even side
timedelta_to_seconds(td) ==
    LET q == td.days * 86400 + td.seconds
        r == td.microseconds
    IN  IF 2 * r < 1000000 THEN q
        ELSE IF 2 * r > 1000000 THEN q + 1
        ELSE IF q % 2 = 0 THEN q ELSE q + 1

\* mute testing `not duration` where the code tests `duration is None`
mute_falsy(self, duration, reply) ==
    LET setting == IF duration = None \/ duration = timedelta(0, 0, 0) THEN "-1"
                   ELSE IntToStr(timedelta_to_seconds(duration))
    IN  PostAndForget(self, "/ajax/mercury/change_mute_thread.php?dpr=1",
                      [mute_settings |-> setting, thread_fbid |-> self.id], reply)

\* duration: None or a timedelta
mute(self, duration, reply) ==
    LET setting == IF duration = None THEN "-1"
                   ELSE IntToStr(timedelta_to_seconds(duration))
    IN  PostAndForget(self, "/ajax/mercury/change_mute_thread.php?dpr=1",
                      [mute_settings |-> setting, thread_fbid |-> self.id], reply)

unmute(self, reply) == mute(self, timedelta(0, 0, 0), reply)

_mute_reactions(self, mode, reply) ==
    PostAndForget(self, "/ajax/mercury/change_reactions_mute_thread/?dpr=1",
                  [reactions_mute_mode |-> IF mode THEN "1" ELSE "0",
                   thread_fbid |-> self.id],
                  reply)

mute_reactions(self, reply) == _mute_reactions(self, TRUE, reply)

unmute_reactions(self, reply) == _mute_reactions(self, FALSE, reply)

_mute_mentions(self, mode, reply) ==
    PostAndForget(self, "/ajax/mercury/change_mentions_mute_thread/?dpr=1",
                  [mentions_mute_mode |-> IF mode THEN "1" ELSE "0",
                   thread_fbid |-> self.id],
                  reply)

mute_mentions(self, reply) == _mute_mentions(self, TRUE, reply)

unmute_mentions(self, reply) == _mute_mentions(self, FALSE, reply)

mark_as_spam(self, reply) ==
    PostAndForget(self, "/ajax/mercury/mark_spam.php?dpr=1", [id |-> self.id], reply)

(***************************************************************************)
(* The state machine.                                                      *)
(***************************************************************************)
Init ==
    /\ \E cls \in Classes, s \in Sessions, id \in IdValues :
          /\ ctor = [cls |-> cls, session |-> s, id |-> id]
          /\ thread = ThreadInit(cls, s, id)
    /\ op = [name |-> "__init__"]
    /\ sent = <<>>
    /\ replies = <<>>
    /\ result = Return(None)

\* one call of a method: what it did replaces what the last call did
Call(name, args, out) ==
    /\ op' = [name |-> name, args |-> args]
    /\ thread' = out.self
    /\ sent' = out.sent
    /\ replies' = out.replies
    /\ result' = out.result
    /\ UNCHANGED ctor

Wave ==
    \E first \in BOOLEAN, reply \in SendReplies :
        Call("wave", [first |-> first], wave(thread, first, reply))

Texts == {Str(""), Str("hi")}
Mentions == {[thread_id |-> "1234", offset |-> 0, length |-> 2]}
Files == {<<"file1", "image/png">>, <<"file2", "image/gif">>}
FileLists == {List(fs) : fs \in SeqUpTo(Files, MaxItems)}

\* the arguments of send_text: each parameter varied from a plain text message,
\* and a message that uses all of them
SendTextArgs ==
    {[text |-> x, mentions |-> None, files |-> None, reply_to_id |-> None] : x \in Texts}
    \cup {[text |-> Str("hi"), mentions |-> List(ms), files |-> None, reply_to_id |-> None] :
            ms \in SeqUpTo(Mentions, MaxItems)}
    \cup {[text |-> Str("hi"), mentions |-> None, files |-> fs, reply_to_id |-> None] :
            fs \in FileLists}
    \cup {[text |-> Str("hi"), mentions |-> None, files |-> None, reply_to_id |-> r] :
            r \in {Str(""), Str("mid.0")}}
    \cup {[text |-> Str("hi"), mentions |-> List(<<m>>), files |-> List(<<f>>),
           reply_to_id |-> Str("mid.0")] : m \in Mentions, f \in Files}

SendText ==
    \E a \in SendTextArgs, reply \in SendReplies :
        Call("send_text", a,
             send_text(thread, a.text, a.mentions, a.files, a.reply_to_id, reply))

SendEmoji ==
    \E emoji \in {"(y)"}, size \in {[name |-> n] : n \in {"LARGE", "SMALL"}},
       reply \in SendReplies :
        Call("send_emoji", [emoji |-> emoji, size |-> size],
             send_emoji(thread, emoji, size, reply))

SendSticker ==
    \E sticker_id \in {"369239263222822"}, reply \in SendReplies :
        Call("send_sticker", [sticker_id |-> sticker_id],
             send_sticker(thread, sticker_id, reply))

Latitudes == {55}
Longitudes == {12}

SendLocation ==
    \E latitude \in Latitudes, longitude \in Longitudes, reply \in SendReplies :
        Call("send_location", [latitude |-> latitude, longitude |-> longitude],
             send_location(thread, latitude, longitude, reply))

SendPinnedLocation ==
    \E latitude \in Latitudes, longitude \in Longitudes, reply \in SendReplies :
        Call("send_pinned_location", [latitude |-> latitude, longitude |-> longitude],
             send_pinned_location(thread, latitude, longitude, reply))

SendFiles ==
    \E files \in FileLists, reply \in SendReplies :
        Call("send_files", [files |-> files], send_files(thread, files, reply))

Queries == {"hello"}
Snippets == {[message_id |-> m] : m \in MessageIds}
\* what the search endpoint answers for query about the thread id: nothing
\* about the thread, or its snippets
SearchReplies(query, id) ==
    {SessionFailure, Answer([search_snippets |-> (query :> <<>>)])}
    \cup {Answer([search_snippets |-> (query :> (id :> [snippets |-> ss]))]) :
            ss \in SeqUpTo(Snippets, MaxItems)}

SearchMessages ==
    \E query \in Queries, offset \in {0}, limit \in {5} :
      \E reply \in SearchReplies(query, thread.id) :
        Call("search_messages", [query |-> query, offset |-> offset, limit |-> limit],
             search_messages(thread, query, offset, limit, reply))

MessageNodes == {[message_id |-> m] : m \in MessageIds}
ReadReceipts == {<<>>, <<[actor |-> "1234"]>>}
\* what the thread query answers: no thread, or its messages and read receipts
FetchReplies ==
    {SessionFailure, Answer(<<>>), Answer([message_thread |-> None])}
    \cup {Answer([message_thread |->
                    [read_receipts |-> [nodes |-> rr], messages |-> [nodes |-> ns]]]) :
            rr \in ReadReceipts, ns \in SeqUpTo(MessageNodes, MaxItems)}

FetchMessages ==
    \E limit \in {20}, before \in {None, [t |-> "datetime", at |-> "2020-01-01"]},
       reply \in FetchReplies :
        Call("fetch_messages", [limit |-> limit, before |-> before],
             fetch_messages(thread, limit, before, reply))

ImageEdge == [node |-> [__typename |-> Str("MessageImage"),
                        legacy_attachment_id |-> Str("a1")]]
VideoEdge == [node |-> [__typename |-> Str("MessageVideo"),
                        legacy_attachment_id |-> Str("a2")]]
OtherEdge == [node |-> [legacy_attachment_id |-> Str("a3")]]
EdgeLists == {<<>>, <<ImageEdge, VideoEdge, OtherEdge>>}
Cursors == {"cursor1", "cursor2"}
MediaPage(id, edges, page_info) ==
    Answer(id :> [message_shared_media |-> [edges |-> edges, page_info |-> page_info]])
\* a page of shared media that says another follows
MorePages(id) ==
    {MediaPage(id, es, [has_next_page |-> PyBool(TRUE), end_cursor |-> Str(c)]) :
        es \in EdgeLists, c \in Cursors}
    \cup {MediaPage(id, <<>>, [has_next_page |-> PyBool(TRUE)])}
\* a page that says it is the last, and the session failing
LastPages(id) ==
    {SessionFailure, MediaPage(id, <<>>, <<>>)}
    \cup {MediaPage(id, es, [has_next_page |-> PyBool(FALSE), end_cursor |-> None]) :
            es \in EdgeLists}
\* what the session answers to the requests of one fetch_images: pages that
\* announce a next page, then one that does not
PageLists(id) ==
    {ps \o <<l>> : ps \in SeqUpTo(MorePages(id), MaxPages - 1), l \in LastPages(id)}

FetchImages ==
    \E pages \in PageLists(thread.id) :
        Call("fetch_images", <<>>, fetch_images(thread, pages))

ForcedFetch ==
    \E message_id \in MessageIds, reply \in PlainReplies :
        Call("_forced_fetch", [message_id |-> message_id],
             _forced_fetch(thread, message_id, reply))

SetNickname ==
    \E user_id \in {"1234"}, nickname \in {"nick"}, reply \in PlainReplies :
        Call("set_nickname", [user_id |-> user_id, nickname |-> nickname],
             set_nickname(thread, user_id, nickname, reply))

\* every settable color, and some that are not: another color, the default in
\* upper case, the empty string the endpoint takes for the default
Colors ==
    {SETABLE_COLORS[i] : i \in 1..Len(SETABLE_COLORS)} \cup {"#000000", "#0084FF", ""}

SetColor ==
    \E color \in Colors, reply \in PlainReplies :
        Call("set_color", [color |-> color], set_color(thread, color, reply))

SetEmoji ==
    \E emoji \in {"(y)"}, reply \in PlainReplies :
        Call("set_emoji", [emoji |-> emoji], set_emoji(thread, emoji, reply))

ForwardReplies ==
    {SessionFailure, Answer([success |-> PyBool(TRUE)]),
     Answer([success |-> PyBool(FALSE), error |-> "not allowed"])}

ForwardAttachment ==
    \E attachment_id \in {"a1"}, otid \in {"6591", "6592"}, reply \in ForwardReplies :
        Call("forward_attachment", [attachment_id |-> attachment_id],
             forward_attachment(thread, attachment_id, otid, reply))

StartTyping ==
    \E reply \in PlainReplies : Call("start_typing", <<>>, start_typing(thread, reply))

StopTyping ==
    \E reply \in PlainReplies : Call("stop_typing", <<>>, stop_typing(thread, reply))

PollOptionItems == {<<"Option 1", TRUE>>, <<"Option 2", FALSE>>}
PollReplies ==
    {SessionFailure, Answer([status |-> Str("success")]),
     Answer([status |-> Str("failure"), errorTitle |-> "t", errorMessage |-> "m"])}

CreatePoll ==
    \E question \in {"Test poll"}, options \in SeqUpTo(PollOptionItems, MaxItems),
       reply \in PollReplies :
        Call("create_poll", [question |-> question, options |-> options],
             create_poll(thread, question, options, reply))

\* durations: none, whole seconds up to days, a negative one, and half seconds
Durations ==
    {timedelta(0, 0, 0), timedelta(0, 1, 0), timedelta(0, 3600, 0), timedelta(1, 1, 0),
     timedelta(0 - 1, 86399, 0), timedelta(0 - 1, 86340, 0), timedelta(0, 1, 500000),
     timedelta(0, 2, 500000)}

Mute ==
    \E duration \in {None} \cup Durations, reply \in PlainReplies :
        Call("mute", [duration |-> duration], mute(thread, duration, reply))

Unmute ==
    \E reply \in PlainReplies : Call("unmute", <<>>, unmute(thread, reply))

MuteReactions ==
    \E reply \in PlainReplies : Call("mute_reactions", <<>>, mute_reactions(thread, reply))

UnmuteReactions ==
    \E reply \in PlainReplies :
        Call("unmute_reactions", <<>>, unmute_reactions(thread, reply))

MuteMentions ==
    \E reply \in PlainReplies : Call("mute_mentions", <<>>, mute_mentions(thread, reply))

UnmuteMentions ==
    \E reply \in PlainReplies :
        Call("unmute_mentions", <<>>, unmute_mentions(thread, reply))

MarkAsSpam ==
    \E reply \in PlainReplies : Call("mark_as_spam", <<>>, mark_as_spam(thread, reply))

Next ==
    \/ Wave
    \/ SendText
    \/ SendEmoji
    \/ SendSticker
    \/ SendLocation
    \/ SendPinnedLocation
    \/ SendFiles
    \/ SearchMessages
    \/ FetchMessages
    \/ FetchImages
    \/ ForcedFetch
    \/ SetNickname
    \/ SetColor
    \/ SetEmoji
    \/ ForwardAttachment
    \/ StartTyping
    \/ StopTyping
    \/ CreatePoll
    \/ Mute
    \/ Unmute
    \/ MuteReactions
    \/ UnmuteReactions
    \/ MuteMentions
    \/ UnmuteMentions
    \/ MarkAsSpam

Spec == Init /\ [][Next]_vars

(***************************************************************************)
(* Properties.                                                             *)
(***************************************************************************)
SaveThreadColorUrl == "/messaging/save_thread_color/?source=thread_settings&dpr=1"

\* C1: set_color takes only the colors of SETABLE_COLORS: for any other color
\* it raises ValueError and hands no request to the session; for a color of the
\* list it hands exactly one request to the session, a post to the
\* save_thread_color endpoint.
C1_SetColorAllowList ==
    op.name = "set_color" =>
        IF op.args.color \in {SETABLE_COLORS[i] : i \in 1..20}
        THEN /\ Len(sent) = 1
             /\ sent[1].via = "_payload_post"
             /\ sent[1].url = SaveThreadColorUrl
             /\ sent[1].session = thread.session
             /\ result # Raise("ValueError")
        ELSE /\ sent = <<>>
             /\ result = Raise("ValueError")

\* a color outside the list was refused
C1_Witness ==
    /\ op.name = "set_color"
    /\ op.args.color = "#0084FF"
    /\ sent = <<>>
    /\ result = Raise("ValueError")

\* C2, as the specification states it: the id of the thread is a string of
\* length at least 1.
C2_IdNonEmpty == Len(thread.id) >= 1

\* C2, as the code has it: the id of the thread is the string str(value) of the
\* value passed to the constructor, empty when that value is the empty string
\* and of length at least 1 for every other value here, and no operation
\* changes it.
C2_IdIsStrOfValue ==
    /\ thread.id \in STRING
    /\ thread.id = PyStr(ctor.id)
    /\ (Len(thread.id) >= 1) <=> (ctor.id # Str(""))

\* a thread constructed with a number, after an operation on it
C2_Witness ==
    /\ op.name = "mute"
    /\ ctor.id = PyInt(42)
    /\ thread.id = "42"

\* whether the reply announces another page of shared media of thread id
AnnouncesNext(reply, id) ==
    /\ reply.ok
    /\ Truthy(Get(reply.j[id].message_shared_media.page_info, "has_next_page"))

\* C3, as the specification states it: one call of any operation hands at most
\* one request to the session.
C3_AtMostOneRequest == Len(sent) <= 1

\* C3, as the code has it: one call of any operation other than fetch_images hands at most
\* one request to the session.  fetch_images, iterated to its end, sends one
\* request for the first page and one more after each reply that announces a
\* next page; the first request has no cursor, and each later request carries
\* as `after` the end_cursor of the reply before it.
C3_OneRequestExceptPaging ==
    /\ Len(replies) = Len(sent)
    /\ op.name # "fetch_images" => Len(sent) <= 1
    /\ op.name = "fetch_images" =>
          /\ Len(sent) >= 1
          /\ "after" \notin DOMAIN sent[1].query.params
          /\ \A k \in 1..Len(sent) :
                /\ AnnouncesNext(replies[k], thread.id) <=> k < Len(sent)
                /\ k < Len(sent) =>
                      sent[k + 1].query.params.after =
                          Get(replies[k].j[thread.id].message_shared_media.page_info,
                              "end_cursor")

\* fetch_images asked for a second page with the cursor of the first
C3_Witness ==
    /\ op.name = "fetch_images"
    /\ Len(sent) = 2
    /\ Get(replies[1].j[thread.id].message_shared_media.page_info, "end_cursor")
          = Str("cursor2")
    /\ sent[2].query.params.after = Str("cursor2")
    /\ result.kind = "return"

\* C4: a thread holds its id and its session and nothing else, no operation
\* changes them, whether it returns or raises, and the thread attached to each
\* message fetch_messages returns has the id and the session of the thread.
C4_ThreadUnchanged ==
    /\ DOMAIN thread = {"cls", "session", "id"}
    /\ thread = ThreadInit(ctor.cls, ctor.session, ctor.id)
    /\ (op.name = "fetch_messages" /\ result.kind = "return") =>
          \A i \in 1..Len(result.value.items) :
              /\ result.value.items[i].thread.id = thread.id
              /\ result.value.items[i].thread.session = thread.session
              /\ result.value.items[i].thread.cls = thread.cls

\* fetch_messages returned two messages of a thread
C4_Witness ==
    /\ op.name = "fetch_messages"
    /\ result.kind = "return"
    /\ Len(result.value.items) = 2
    /\ result.value.items[1].thread = thread
    /\ thread.id = "None"

\* C5: when send_text, send_emoji, send_sticker or wave returns, what it
\* returns is the message id of the pair the session answered with.
C5_SendReturnsMessageId ==
    (op.name \in {"send_text", "send_emoji", "send_sticker", "wave"}
        /\ result.kind = "return") =>
        result.value = Str(replies[1].j[1])

\* the operations that build their payload with _to_send_data
SendOps ==
    {"wave", "send_text", "send_emoji", "send_sticker", "send_location",
     "send_pinned_location", "send_files"}

\* C6: on a raw Thread every operation that builds its payload with
\* _to_send_data raises NotImplementedError and hands no request to the
\* session, and every other operation still hands its request to the session
\* (set_color: when the color is one of the list).
C6_RawThreadSends ==
    (thread.cls = "Thread" /\ op.name # "__init__") =>
        IF op.name \in SendOps
        THEN result = Raise("NotImplementedError") /\ sent = <<>>
        ELSE IF op.name = "set_color" /\ ~InSetableColors(op.args.color)
        THEN sent = <<>>
        ELSE Len(sent) >= 1 /\ result # Raise("NotImplementedError")

\* send_files refused on a raw Thread
C6_Witness ==
    /\ thread.cls = "Thread"
    /\ op.name = "send_files"
    /\ result = Raise("NotImplementedError")
    /\ sent = <<>>

MuteUrl == "/ajax/mercury/change_mute_thread.php?dpr=1"

\* the mute_settings C7 expects for a duration
ExpectedMuteSetting(duration) ==
    CASE duration = None -> "-1"
      [] duration = timedelta(0, 0, 0) -> "0"
      [] duration = timedelta(0, 1, 0) -> "1"
      [] duration = timedelta(0, 3600, 0) -> "3600"
      [] duration = timedelta(1, 1, 0) -> "86401"
      [] duration = timedelta(0 - 1, 86399, 0) -> "-1"
      [] duration = timedelta(0 - 1, 86340, 0) -> "-60"
      [] OTHER -> IntToStr(timedelta_to_seconds(duration))

\* C7: mute(None) sends mute_settings "-1", mute(d) sends the seconds of d in
\* decimal, unmute() sends the request of mute(timedelta(0)), mute_settings "0";
\* each is one request, to the mute endpoint, with the thread's id as thread_fbid.
C7_MuteSettings ==
    op.name \in {"mute", "unmute"} =>
        /\ Len(sent) = 1
        /\ sent[1].url = MuteUrl
        /\ sent[1].session = thread.session
        /\ DOMAIN sent[1].data = {"mute_settings", "thread_fbid"}
        /\ sent[1].data.thread_fbid = thread.id
        /\ op.name = "mute" =>
              sent[1].data.mute_settings = ExpectedMuteSetting(op.args.duration)
        /\ op.name = "unmute" =>
              /\ sent[1].data.mute_settings = "0"
              /\ sent = mute(thread, timedelta(0, 0, 0), replies[1]).sent

\* unmute sent mute_settings "0"
C7_Witness ==
    /\ op.name = "unmute"
    /\ Len(sent) = 1
    /\ sent[1].data.mute_settings = "0"
====
